---- MODULE Spec2Model ----
(***************************************************************************)
(* NetPrompt: the document ingestion / deduplication / retrieval workflow  *)
(* of add_file.py and db_p4.py, both working on the one persistent Chroma  *)
(* collection "p4_documents" of the store at path "p4_vector_db".          *)
(*                                                                         *)
(* Python strings are TLA+ strings.  A document's extracted text is kept   *)
(* as the sequence of its maximal runs of whitespace / non-whitespace      *)
(* characters, which is what TextWrapper._split makes of a text without    *)
(* hyphens and tabs; the text itself is the concatenation of the runs.     *)
(***************************************************************************)
EXTENDS Integers, Sequences, FiniteSets, TLC

VARIABLES
    store,     \* the records of the collection: [id, document, metadata]
    fs,        \* the PDF files of the working directory: name -> file
    ingested,  \* the files a completed ingestion has read as they are now
    last,      \* the last operation: its arguments, outcome, return value
    running    \* the ingestions in progress side by side: process -> position

vars == <<store, fs, ingested, last, running>>

----------------------------------------------------------------------------
(* Bounds of the model *)

\* top_k of a retrieval is drawn from 1..MaxTopK
MaxTopK == 3
\* a write failure of the store hits the 1st .. MaxFailAt-th collection.add of
\* an operation (0: the store stays available)
MaxFailAt == 2
\* the faults (failed requests, unreadable downloads, a write failure) that
\* meet in one run of db_p4's build_database
\* chunk_text is tried with chunk_size up to MaxChunkSize and min_chunk_size
\* up to MaxMinChunkSize
MaxChunkSize == 4
MaxMinChunkSize == 2

\* the processes that ingest side by side
NumProcs == 2

\* a result of retrieve_documents handed to generate_response holds up to
\* MaxResults elements, an inner list up to MaxDocs texts
MaxResults == 2
MaxDocs == 2

MaxFaults == 1

----------------------------------------------------------------------------
(* Python values *)

PyNone == [tag |-> "NoneType", val |-> <<>>]
PyStr(s) == [tag |-> "str", val |-> s]
PyInt(i) == [tag |-> "int", val |-> i]
PyList(xs) == [tag |-> "list", val |-> xs]
PyDict(d) == [tag |-> "dict", val |-> d]

\* the keys a metadata mapping does not hold are mapped to Absent
Absent == [tag |-> "absent", val |-> <<>>]
MetaKeys == {"filename", "chunk", "file_path", "repo_url", "file_type"}
Meta(d) == [k \in MetaKeys |-> IF k \in DOMAIN d THEN d[k] ELSE Absent]

\* dict.get(key): None when the key is missing
DictGet(d, key) == IF d[key] = Absent THEN PyNone ELSE d[key]

----------------------------------------------------------------------------
(* Strings *)

RECURSIVE Rep(_, _)
Rep(s, n) ==
    IF n = 0 THEN ""
    ELSE IF n % 2 = 0 THEN LET h == Rep(s, n \div 2) IN h \o h
    ELSE s \o Rep(s, n - 1)

RECURSIVE Join(_)
Join(ss) == IF ss = <<>> THEN "" ELSE Head(ss) \o Join(Tail(ss))

RECURSIVE JoinLen(_)
JoinLen(ss) == IF ss = <<>> THEN 0 ELSE Len(Head(ss)) + JoinLen(Tail(ss))

\* chunk.strip() == '' for a run of one kind of character
IsBlank(s) == s = "" \/ SubSeq(s, 1, 1) = " "

EndsWith(s, suffix) ==
    Len(s) >= Len(suffix) /\ SubSeq(s, Len(s) - Len(suffix) + 1, Len(s)) = suffix

----------------------------------------------------------------------------
(* textwrap.wrap(text, width) with the defaults of TextWrapper:            *)
(* drop_whitespace, break_long_words, no indent, no max_lines.             *)

RECURSIVE FillLine(_, _, _)
FillLine(chunks, cur_line, width) ==
    IF chunks # <<>> /\ JoinLen(cur_line) + Len(Head(chunks)) <= width
    THEN FillLine(Tail(chunks), Append(cur_line, Head(chunks)), width)
    ELSE [chunks |-> chunks, cur_line |-> cur_line]

SpaceLeft(cur_line, width) == IF width < 1 THEN 1 ELSE width - JoinLen(cur_line)

SplitWord(chunks, cur_line, space_left) ==
    [chunks |-> <<SubSeq(Head(chunks), space_left + 1, Len(Head(chunks)))>> \o Tail(chunks),
     cur_line |-> Append(cur_line, SubSeq(Head(chunks), 1, space_left))]

HandleLongWord(chunks, cur_line, width) ==
    SplitWord(chunks, cur_line, SpaceLeft(cur_line, width))

DropLeadingBlank(chunks, lines) ==
    IF IsBlank(Head(chunks)) /\ lines # <<>> THEN Tail(chunks) ELSE chunks

BreakLongWord(f, width) ==
    IF f.chunks # <<>> /\ Len(Head(f.chunks)) > width
    THEN HandleLongWord(f.chunks, f.cur_line, width)
    ELSE f

DropTrailingBlank(cur_line) ==
    IF cur_line # <<>> /\ IsBlank(cur_line[Len(cur_line)])
    THEN SubSeq(cur_line, 1, Len(cur_line) - 1)
    ELSE cur_line

AppendLine(lines, cur_line) ==
    IF cur_line # <<>> THEN Append(lines, Join(cur_line)) ELSE lines

EndLine(h, lines) ==
    [chunks |-> h.chunks, lines |-> AppendLine(lines, DropTrailingBlank(h.cur_line))]

\* one line: the chunks left and the lines so far
WrapLine(chunks, lines, width) ==
    EndLine(BreakLongWord(FillLine(DropLeadingBlank(chunks, lines), <<>>, width), width),
            lines)

RECURSIVE WrapChunks(_, _, _)
WrapRest(r, width) == WrapChunks(r.chunks, r.lines, width)

WrapChunks(chunks, lines, width) ==
    IF chunks = <<>> THEN lines ELSE WrapRest(WrapLine(chunks, lines, width), width)

wrap(text, width) == WrapChunks(text, <<>>, width)

default_chunk_size == 512
default_min_chunk_size == 100

\* (a bug: a chunk of min_chunk_size characters is kept)
chunk_textKeepingShort(text, chunk_size, min_chunk_size) ==
    SelectSeq(wrap(text, chunk_size), LAMBDA chunk : Len(chunk) >= min_chunk_size)

chunk_text(text, chunk_size, min_chunk_size) ==
    SelectSeq(wrap(text, chunk_size), LAMBDA chunk : Len(chunk) > min_chunk_size)

StrList(ss) == PyList([i \in DOMAIN ss |-> PyStr(ss[i])])

\* a call chunk_text(text, chunk_size, min_chunk_size): TextWrapper._wrap_chunks
\* begins with  if self.width <= 0: raise ValueError
ChunkTextCall(text, chunk_size, min_chunk_size) ==
    IF chunk_size <= 0
    THEN [error |-> "ValueError", ret |-> PyNone]
    ELSE [error |-> "", ret |-> StrList(chunk_text(text, chunk_size, min_chunk_size))]

----------------------------------------------------------------------------
(* The environment: the documents and the versions of their content *)

Missing == [kind |-> "missing", text |-> <<>>]
Malformed == [kind |-> "malformed", text |-> <<>>]
Pdf(text) == [kind |-> "pdf", text |-> text]

CheatSheet == "p4-cheat-sheet.pdf"
Tutorial == "p4-16-tutorial.pdf"
PdfNames == {CheatSheet, Tutorial}

\* the contents a document is seen with: unreadable, or one of its versions
CheatSheetV1 == Pdf(<<Rep("x", 300), " ", Rep("y", 250)>>)
\* the cheat sheet after an edit of its first 300 characters
CheatSheetV2 == Pdf(<<Rep("z", 300), " ", Rep("y", 250)>>)
TutorialV1 == Pdf(<<Rep("w", 300), " ", Rep("v", 50)>>)
Versions(name) ==
    IF name = CheatSheet THEN {Malformed, CheatSheetV1} ELSE {TutorialV1}

\* the entries of the GitHub listing of p4lang/tutorials/exercises
ExercisesUrl == "https://github.com/p4lang/tutorials/tree/master/exercises/"
Entry(name, type) == [name |-> name, type |-> type, html_url |-> ExercisesUrl \o name]
ExerciseListing ==
    <<Entry("README.md", "file"), Entry("basic", "dir"), Entry("basic_tunnel", "dir")>>

\* what requests.get gives: a RequestException (connection error, timeout,
\* non-2xx status at raise_for_status) or the content
RequestFailed == [ok |-> FALSE, content |-> Missing]
Response(content) == [ok |-> TRUE, content |-> content]

----------------------------------------------------------------------------
(* The collection (chromadb) *)

Ids(st) == {r.id : r \in st}

\* The run of one operation: the store and files as it goes, the number of
\* collection.add calls made and of records they stored, the exception
\* raised (if any).  What the
\* operations print is left out.
Run(st, files, ing, failAt) ==
    [store |-> st, fs |-> files, ingested |-> ing, failAt |-> failAt, writes |-> 0,
     stored |-> 0, error |-> "", dup |-> FALSE, skipped |-> {}]

Raise(s, error) == [s EXCEPT !.error = error]

\* collection.add(ids=[id], documents=[document], metadatas=[metadata]):
\* an id the collection already holds is not added again
CollectionAdd(s, id, document, metadata) ==
    IF s.writes + 1 = s.failAt
    THEN [Raise(s, "StoreWriteError") EXCEPT !.writes = @ + 1]
    ELSE [s EXCEPT
            !.store = IF id \in Ids(@) THEN @
                      ELSE @ \cup {[id |-> id, document |-> document, metadata |-> metadata]},
            !.dup = @ \/ id \in Ids(s.store),
            !.stored = IF id \in Ids(s.store) THEN @ ELSE @ + 1,
            !.writes = @ + 1]

\* (a bug: the ids stored are not looked up)
ExistingIdsNotRead(st) == {}

\* set(collection.get()["ids"])
ExistingIds(st) == Ids(st)

\* {meta["filename"] for meta in collection.get()["metadatas"]}
\*     if collection.count() > 0 else set()
ExistingFiles(st) ==
    IF Cardinality(st) > 0 THEN {r.metadata["filename"].val : r \in st} ELSE {}

\* f"{name}-{i}", i the 0-based index of enumerate
ChunkId(name, i) == name \o "-" \o ToString(i)

----------------------------------------------------------------------------
(* add_file.py *)

Basename(path) ==
    LET RECURSIVE LastSep(_)
        LastSep(i) == IF i = 0 \/ SubSeq(path, i, i) = "/" THEN i ELSE LastSep(i - 1)
    IN  SubSeq(path, LastSep(Len(path)) + 1, Len(path))

\* (a bug: the ids number on from the records the collection holds)
AFNewChunksNumberedOn(chunks, base_filename, existing_ids) ==
    [i \in 1..Len(chunks) |->
        [id |-> base_filename \o "-" \o ToString(Cardinality(existing_ids) + i - 1),
         chunk |-> chunks[i]]]

\* new_chunks: the (chunk_id, chunk) whose id is not in existing_ids
AFNewChunks(chunks, base_filename, existing_ids) ==
    SelectSeq([i \in 1..Len(chunks) |->
                  [id |-> ChunkId(base_filename, i - 1), chunk |-> chunks[i]]],
              LAMBDA c : c.id \notin existing_ids)

RECURSIVE AFAddEach(_, _, _, _)
AFAddEach(s, new_chunks, base_filename, pdf_path) ==
    IF new_chunks = <<>> \/ s.error # "" THEN s
    ELSE LET c == Head(new_chunks)
         IN  AFAddEach(
                 CollectionAdd(s, c.id, c.chunk,
                     Meta([filename |-> PyStr(base_filename), chunk |-> PyStr(c.id),
                           file_path |-> PyStr(pdf_path)])),
                 Tail(new_chunks), base_filename, pdf_path)

\* (a bug: a failed insertion takes back the insertions before it)
AFAddNewChunksOrNone(s, new_chunks, base_filename, pdf_path) ==
    LET t == AFAddEach(s, new_chunks, base_filename, pdf_path)
    IN  IF t.error # "" THEN [t EXCEPT !.store = s.store] ELSE t

\* for chunk_id, chunk in new_chunks: collection.add(...)
AFAddNewChunks(s, new_chunks, base_filename, pdf_path) ==
    AFAddEach(s, new_chunks, base_filename, pdf_path)

\* the run is over: without an exception, the file has been ingested as it is
Completed(t, name) ==
    IF t.error # "" THEN t ELSE [t EXCEPT !.ingested = @ \cup {name}]

\* if not new_chunks: return; else add them
AFStoreNewChunks(s, pdf_path, base_filename, new_chunks) ==
    IF new_chunks = <<>> THEN Completed(s, pdf_path)
    ELSE Completed(AFAddNewChunks(s, new_chunks, base_filename, pdf_path), pdf_path)

AFRead(s, pdf_path, text) ==
    AFStoreNewChunks(s, pdf_path, Basename(pdf_path),
        AFNewChunks(chunk_text(text, default_chunk_size, default_min_chunk_size),
                    Basename(pdf_path), ExistingIds(s.store)))

FileAt(files, path) == IF path \in DOMAIN files THEN files[path] ELSE Missing

\* the run of add_pdf_to_database(pdf_path)
AFIngest(s, pdf_path) ==
    IF FileAt(s.fs, pdf_path).kind = "missing" THEN Raise(s, "FileNotFoundError")
    ELSE IF FileAt(s.fs, pdf_path).kind = "malformed" THEN Raise(s, "PDFSyntaxError")
    ELSE AFRead(s, pdf_path, FileAt(s.fs, pdf_path).text)

\* (a bug: the function returns the number of chunks it added)
WithCount(run) == [run |-> run, ret |-> PyInt(run.stored)]

AFAddPdfReturningCount(s, pdf_path) == WithCount(AFIngest(s, pdf_path))

\* add_pdf_to_database(pdf_path): the run after it and the value returned;
\* both the bare return of line 55 and the end of the function give None
AFAddPdfToDatabase(s, pdf_path) == [run |-> AFIngest(s, pdf_path), ret |-> PyNone]

Orders(S) == {o \in [1..Cardinality(S) -> S] : \A e \in S : \E i \in DOMAIN o : o[i] = e}

\* os.listdir() of the working directory, which holds the store's directory
\* too; the order of the files is arbitrary
ListDir(files) ==
    {<<"p4_vector_db">> \o o : o \in Orders({n \in DOMAIN files : files[n].kind # "missing"})}

RECURSIVE AFIngestEach(_, _)
AFIngestEach(s, new_files) ==
    IF new_files = <<>> \/ s.error # "" THEN s
    ELSE AFIngestEach(AFAddPdfToDatabase(s, Head(new_files)).run, Tail(new_files))

\* if not new_files: return; else add each
AFAddNewFiles(s0, new_files) ==
    [run |-> IF new_files = <<>> THEN s0 ELSE AFIngestEach(s0, new_files),
     ret |-> PyNone]

\* the files of the listing that build_database leaves out are recorded
AFSelectNewFiles(s, pdf_files, existing_files) ==
    AFAddNewFiles(
        [s EXCEPT !.skipped = {pdf_files[i] : i \in DOMAIN pdf_files} \cap existing_files],
        SelectSeq(pdf_files, LAMBDA f : f \notin existing_files))

\* build_database(), listdir the listing os.listdir() returns
AFBuildDatabase(s, listdir) ==
    AFSelectNewFiles(s, SelectSeq(listdir, LAMBDA f : EndsWith(f, ".pdf")),
                     ExistingFiles(s.store))

----------------------------------------------------------------------------
(* db_p4.py *)

CheatSheetUrl == "https://raw.githubusercontent.com/p4lang/tutorials/master/p4-cheat-sheet.pdf"
TutorialUrl == "https://opennetworking.org/wp-content/uploads/2020/12/p4_d2_2017_p4_16_tutorial.pdf"
UrlOf(pdf_filename) == IF pdf_filename = CheatSheet THEN CheatSheetUrl ELSE TutorialUrl

\* for i, chunk in enumerate(chunks): add the chunk unless its id is in existing_ids
RECURSIVE P4AddChunks(_, _, _, _, _)
P4AddChunks(s, chunks, i, existing_ids, entry) ==
    IF i >= Len(chunks) \/ s.error # "" THEN s
    ELSE LET chunk_id == ChunkId(entry.filename, i)
         IN  P4AddChunks(
                 IF chunk_id \notin existing_ids
                 THEN CollectionAdd(s, chunk_id, chunks[i + 1],
                          Meta([filename |-> PyStr(entry.filename), chunk |-> PyInt(i),
                                repo_url |-> PyStr(entry.repo_url)]
                               @@ entry.more))
                 ELSE s,
                 chunks, i + 1, existing_ids, entry)

\* with open(pdf_path, "wb") as file: file.write(response.content)
P4WriteFile(s, pdf_filename, content) ==
    [s EXCEPT !.fs[pdf_filename] = content,
              !.ingested = IF s.fs[pdf_filename] = content THEN @ ELSE @ \ {pdf_filename}]

\* extract_text, chunk_text and the loop over the chunks
P4Ingest(written, pdf_url, pdf_filename) ==
    IF written.fs[pdf_filename].kind = "malformed"
    THEN Raise(written, "PDFSyntaxError")
    ELSE Completed(
             P4AddChunks(written,
                 chunk_text(written.fs[pdf_filename].text,
                            default_chunk_size, default_min_chunk_size),
                 0, ExistingIds(written.store),
                 [filename |-> pdf_filename, repo_url |-> pdf_url, more |-> <<>>]),
             pdf_filename)

\* add_pdf_to_database(pdf_url, pdf_filename), response what requests.get
\* gives; except requests.RequestException catches a failed request alone
P4AddPdfToDatabase(s, pdf_url, pdf_filename, response) ==
    [run |-> IF ~response.ok THEN s
             ELSE P4Ingest(P4WriteFile(s, pdf_filename, response.content),
                           pdf_url, pdf_filename),
     ret |-> PyNone]

\* f"Exercise: {exercise_name} located at {exercise_url}"
ExerciseContent(exercise_name, exercise_url) ==
    <<"Exercise:", " ", exercise_name, " ", "located", " ", "at", " ", exercise_url>>

RECURSIVE P4AddEachExercise(_, _, _)
P4AddEachExercise(s, exercises, existing_ids) ==
    IF exercises = <<>> \/ s.error # "" THEN s
    ELSE LET exercise == Head(exercises)
             chunks == chunk_text(ExerciseContent(exercise.name, exercise.html_url),
                                  default_chunk_size, default_min_chunk_size)
             t == P4AddChunks(s, chunks, 0, existing_ids,
                      [filename |-> exercise.name, repo_url |-> exercise.html_url,
                       more |-> [file_type |-> PyStr("directory")]])
         IN  P4AddEachExercise(
                 IF exercise.type # "dir" THEN s ELSE t,
                 Tail(exercises), existing_ids)

\* add_p4_exercises(), response what the GitHub API gives
P4AddP4Exercises(s, response) ==
    IF ~response.ok
    THEN [run |-> s, ret |-> PyNone]
    ELSE [run |-> P4AddEachExercise(s, response.content, ExistingIds(s.store)),
          ret |-> PyNone]

\* add_p4_exercises() of line 117, reached if nothing was raised before
P4AfterTutorial(s2, responses) ==
    IF s2.error # "" THEN s2 ELSE P4AddP4Exercises(s2, responses[3]).run

\* add_pdf_to_database of line 114, reached if nothing was raised before
P4AfterCheatSheet(s1, responses) ==
    IF s1.error # "" THEN s1
    ELSE P4AfterTutorial(
             P4AddPdfToDatabase(s1, TutorialUrl, Tutorial, responses[2]).run, responses)

\* build_database(), responses what the three requests give
P4BuildDatabase(s, responses) ==
    [run |-> P4AfterCheatSheet(
                 P4AddPdfToDatabase(s, CheatSheetUrl, CheatSheet, responses[1]).run,
                 responses),
     ret |-> PyNone]

\* the script run directly: if __name__ == "__main__"
P4Main(s, responses) ==
    IF Cardinality(s.store) > 0
    THEN [run |-> s, ret |-> PyNone]
    ELSE P4BuildDatabase(s, responses)

----------------------------------------------------------------------------
(* retrieve_documents, the same in add_file.py and db_p4.py *)

\* embedding_model.encode(text): the model is outside the repository; a text's
\* embedding is a point on a line, here its length
get_embedding(text) == Len(text)

Distance(a, b) == IF a >= b THEN a - b ELSE b - a

\* the n_results records nearest to the embedding, nearest first; fewer when
\* the collection holds fewer
RECURSIVE Nearest(_, _, _)
Nearest(st, embedding, n_results) ==
    IF n_results = 0 \/ st = {} THEN <<>>
    ELSE LET r == CHOOSE r \in st : \A o \in st :
                      Distance(get_embedding(r.document), embedding)
                          <= Distance(get_embedding(o.document), embedding)
         IN  <<r>> \o Nearest(st \ {r}, embedding, n_results - 1)

\* collection.query(query_embeddings=[query_embedding], n_results=n_results):
\* every field of the result holds one list per query embedding
QueryResult(recs) ==
    [ids |-> PyList(<<PyList([i \in DOMAIN recs |-> PyStr(recs[i].id)])>>),
     documents |-> PyList(<<PyList([i \in DOMAIN recs |-> PyStr(recs[i].document)])>>),
     metadatas |-> PyList(<<PyList([i \in DOMAIN recs |-> PyDict(recs[i].metadata)])>>)]

CollectionQuery(st, query_embedding, n_results) ==
    QueryResult(Nearest(st, query_embedding, n_results))

\* bool(value) of None or a string
Truthy(value) == value.tag = "str" /\ value.val # ""

\* zip(a, b): the pairs up to the shorter length
Zip(a, b) ==
    [i \in 1..(IF Len(a) <= Len(b) THEN Len(a) ELSE Len(b)) |-> [doc |-> a[i], meta |-> b[i]]]

\* return results["documents"] if "documents" in results else []
Returned(results) ==
    [error |-> "",
     ret |-> IF "documents" \in DOMAIN results THEN results.documents ELSE PyList(<<>>)]

DocsOf(pairs) == PyList([i \in DOMAIN pairs |-> pairs[i].doc])

\* the list comprehension over the pairs; meta.get exists on a dict only
FilterPairs(results, pairs, file_type) ==
    IF \E i \in DOMAIN pairs : pairs[i].meta.tag # "dict"
    THEN [error |-> "AttributeError", ret |-> PyNone]
    ELSE Returned([results EXCEPT !.documents =
             DocsOf(SelectSeq(pairs,
                        LAMBDA p : DictGet(p.meta.val, "file_type") = file_type))])

\* if file_type: results["documents"] = [...]
FilterResults(results, file_type) ==
    IF Truthy(file_type)
    THEN FilterPairs(results, Zip(results.documents.val, results.metadatas.val), file_type)
    ELSE Returned(results)

\* retrieve_documents from the query on
RetrieveResults(st, query, top_k, file_type) ==
    FilterResults(CollectionQuery(st, get_embedding(query), top_k), file_type)

\* (a bug: a failed query is answered with no results)
RetrieveDocumentsQuietly(st, query, top_k, file_type, query_fails) ==
    IF query_fails THEN [error |-> "", ret |-> PyList(<<>>)]
    ELSE RetrieveResults(st, query, top_k, file_type)

\* retrieve_documents(query, top_k, file_type); query_fails: collection.query
\* raises, and nothing catches it
RetrieveDocuments(st, query, top_k, file_type, query_fails) ==
    IF query_fails THEN [error |-> "StoreQueryError", ret |-> PyNone]
    ELSE RetrieveResults(st, query, top_k, file_type)

----------------------------------------------------------------------------
(* The operations as steps of the system *)

FailAts == 0..MaxFailAt

PdfResponses(pdf_filename) ==
    {RequestFailed} \cup {Response(c) : c \in Versions(pdf_filename)}
ListingResponses == {RequestFailed, Response(ExerciseListing)}

NoArgs ==
    [path |-> "", query |-> "", top_k |-> 0, file_type |-> PyNone, query_fails |-> FALSE]

Outcome(op, args, run, ret, rerun) ==
    [op |-> op, args |-> args,
     status |-> IF run.error = "" THEN "returned" ELSE "raised",
     error |-> run.error, ret |-> ret,
     added |-> Cardinality(run.store) - Cardinality(store), stored |-> run.stored,
     kept |-> store \subseteq run.store, dup |-> run.dup, skipped |-> run.skipped,
     rerun |-> rerun]

Commit(run, outcome) ==
    /\ store' = run.store
    /\ fs' = run.fs
    /\ ingested' = run.ingested
    /\ last' = outcome
    /\ running' = running

Procs == 1..NumProcs

\* a process that is not inside add_pdf_to_database
Idle == [kind |-> "idle", name |-> "", url |-> "", file |-> Missing, chunks |-> <<>>,
         i |-> 0, existing_ids |-> {}]

\* the step of an operation that ended as r: its run and the value returned
Step(op, args, r, rerun) == Commit(r.run, Outcome(op, args, r.run, r.ret, rerun))

Init ==
    /\ store = {}
    /\ fs = [n \in PdfNames |-> Missing]
    /\ ingested = {}
    /\ last = Outcome("init", NoArgs, Run({}, <<>>, {}, 0), PyNone, FALSE)
    /\ running = [p \in Procs |-> Idle]

\* the environment puts, replaces or removes a PDF of the working directory
WriteFile ==
    \E name \in PdfNames : \E file \in Versions(name) \cup {Missing} :
        /\ fs[name] # file
        /\ Step("write_file", [NoArgs EXCEPT !.path = name],
                [run |-> Run(store, [fs EXCEPT ![name] = file], ingested \ {name}, 0),
                 ret |-> PyNone], FALSE)

AFAddPdf ==
    \E pdf_path \in PdfNames, failAt \in FailAts :
        Step("af_add_pdf", [NoArgs EXCEPT !.path = pdf_path],
             AFAddPdfToDatabase(Run(store, fs, ingested, failAt), pdf_path),
             pdf_path \in ingested)

AFBuild ==
    \E listdir \in ListDir(fs), failAt \in FailAts :
        Step("af_build_database", NoArgs,
             AFBuildDatabase(Run(store, fs, ingested, failAt), listdir), FALSE)

P4AddPdf ==
    \E pdf_filename \in PdfNames, failAt \in FailAts :
        \E response \in PdfResponses(pdf_filename) :
            Step("p4_add_pdf", [NoArgs EXCEPT !.path = pdf_filename],
                 P4AddPdfToDatabase(Run(store, fs, ingested, failAt),
                                    UrlOf(pdf_filename), pdf_filename, response),
                 /\ pdf_filename \in ingested
                 /\ response.ok
                 /\ response.content = fs[pdf_filename])

P4AddExercises ==
    \E response \in ListingResponses, failAt \in FailAts :
        Step("p4_add_p4_exercises", NoArgs,
             P4AddP4Exercises(Run(store, fs, ingested, failAt), response), FALSE)

Faulty(response) == IF response.ok /\ response.content # Malformed THEN 0 ELSE 1
BuildInputs ==
    {in \in [responses : PdfResponses(CheatSheet) \X PdfResponses(Tutorial) \X ListingResponses,
             failAt : FailAts] :
        Faulty(in.responses[1]) + Faulty(in.responses[2]) + Faulty(in.responses[3])
            + (IF in.failAt = 0 THEN 0 ELSE 1) <= MaxFaults}

P4Build ==
    \E in \in BuildInputs :
        Step("p4_build_database", NoArgs,
             P4BuildDatabase(Run(store, fs, ingested, in.failAt), in.responses), FALSE)

\* the script makes its requests only when it finds the collection empty
P4RunScript ==
    \E in \in IF Cardinality(store) > 0 THEN {[responses |-> <<>>, failAt |-> 0]}
               ELSE BuildInputs :
        Step("p4_main", NoArgs,
             P4Main(Run(store, fs, ingested, in.failAt), in.responses), FALSE)

Queries == {"firewall ACL rules", Rep("TCP header format ", 18)}
FileTypes == {PyNone, PyStr("directory"), PyStr("pdf")}

\* a retrieval changes neither the collection nor the files
RetrievalRun(r) == [run |-> Raise(Run(store, fs, ingested, 0), r.error), ret |-> r.ret]

Retrieve ==
    \E query \in Queries, top_k \in 1..MaxTopK, file_type \in FileTypes,
       query_fails \in BOOLEAN :
        Step("retrieve_documents",
             [NoArgs EXCEPT !.query = query, !.top_k = top_k,
                            !.file_type = file_type, !.query_fails = query_fails],
             RetrievalRun(RetrieveDocuments(store, query, top_k, file_type, query_fails)),
             FALSE)

\* the ingestion workflow of both scripts on the one collection
Next ==
    \/ WriteFile
    \/ AFAddPdf
    \/ AFBuild
    \/ P4AddPdf
    \/ P4AddExercises
    \/ P4Build
    \/ P4RunScript

Spec == Init /\ [][Next]_vars

\* retrieval on the collections db_p4's ingestion leaves
NextRetrieval ==
    \/ P4AddPdf
    \/ P4AddExercises
    \/ Retrieve

SpecRetrieval == Init /\ [][NextRetrieval]_vars

\* the cheat sheet of the working directory is replaced by its edited version
EditFile ==
    /\ fs[CheatSheet] = CheatSheetV1
    /\ Step("write_file", [NoArgs EXCEPT !.path = CheatSheet],
            [run |-> Run(store, [fs EXCEPT ![CheatSheet] = CheatSheetV2],
                         ingested \ {CheatSheet}, 0),
             ret |-> PyNone], FALSE)

\* db_p4's add_pdf_to_database when the URL serves the edited cheat sheet
P4AddEditedPdf ==
    \E failAt \in FailAts :
        Step("p4_add_pdf", [NoArgs EXCEPT !.path = CheatSheet],
             P4AddPdfToDatabase(Run(store, fs, ingested, failAt),
                                CheatSheetUrl, CheatSheet, Response(CheatSheetV2)),
             CheatSheet \in ingested /\ fs[CheatSheet] = CheatSheetV2)

\* ingestion of documents whose content changes between the runs
NextReingest ==
    \/ WriteFile
    \/ EditFile
    \/ AFAddPdf
    \/ P4AddPdf
    \/ P4AddEditedPdf

SpecReingest == Init /\ [][NextReingest]_vars

\* the chunks chunk_text makes of the file as it is now
CurrentChunks(files, name) ==
    chunk_text(files[name].text, default_chunk_size, default_min_chunk_size)

\* A process inside add_pdf_to_database: it has read the text and taken
\* existing_ids, and goes through its chunks one collection.add at a time.
Left(proc) == IF proc.kind = "af" THEN proc.chunks # <<>> ELSE proc.i < Len(proc.chunks)

\* the process goes on, or has ended and is idle again
After(proc) == IF Left(proc) THEN proc ELSE Idle

\* the files ingested as they are now, once a process has ended
IngestedAfter(proc, files, ing) ==
    IF ~Left(proc) /\ files[proc.name] = proc.file THEN ing \cup {proc.name} ELSE ing

\* the step of process p that ended as run and leaves p at proc
Advance(p, op, proc, run) ==
    /\ store' = run.store
    /\ fs' = run.fs
    /\ ingested' = IngestedAfter(proc, run.fs, run.ingested)
    /\ running' = [running EXCEPT ![p] = After(proc)]
    /\ last' = [op |-> op, proc |-> p, name |-> proc.name,
                status |-> IF run.error = "" THEN "returned" ELSE "raised",
                added |-> Cardinality(run.store) - Cardinality(store),
                writes |-> run.writes, dup |-> run.dup]

\* add_file.add_pdf_to_database up to new_chunks (lines 39-55)
AFBegin ==
    \E p \in Procs, pdf_path \in PdfNames :
        /\ running[p].kind = "idle"
        /\ fs[pdf_path].kind = "pdf"
        /\ Advance(p, "af_begin",
               [kind |-> "af", name |-> pdf_path, url |-> "", file |-> fs[pdf_path],
                chunks |-> AFNewChunks(CurrentChunks(fs, pdf_path), Basename(pdf_path),
                                       ExistingIds(store)),
                i |-> 0, existing_ids |-> ExistingIds(store)],
               Run(store, fs, ingested, 0))

\* one turn of the loop of add_file.py lines 58-64
AFAddNext ==
    \E p \in Procs :
        /\ running[p].kind = "af"
        /\ Advance(p, "af_add",
               [running[p] EXCEPT !.chunks = Tail(@)],
               AFAddNewChunks(Run(store, fs, ingested, 0), <<Head(running[p].chunks)>>,
                              Basename(running[p].name), running[p].name))

\* db_p4.add_pdf_to_database up to existing_ids (lines 43-54), the download
\* giving a readable PDF
P4Begin ==
    \E p \in Procs, pdf_filename \in PdfNames :
        \E content \in Versions(pdf_filename) \ {Malformed} :
            /\ running[p].kind = "idle"
            /\ Advance(p, "p4_begin",
                   [kind |-> "p4", name |-> pdf_filename, url |-> UrlOf(pdf_filename),
                    file |-> content,
                    chunks |-> chunk_text(content.text, default_chunk_size,
                                          default_min_chunk_size),
                    i |-> 0, existing_ids |-> ExistingIds(store)],
                   P4WriteFile(Run(store, fs, ingested, 0), pdf_filename, content))

\* one turn of the loop of db_p4.py lines 56-64
P4AddNext ==
    \E p \in Procs :
        /\ running[p].kind = "p4"
        /\ Advance(p, "p4_add",
               [running[p] EXCEPT !.i = @ + 1],
               P4AddChunks(Run(store, fs, ingested, 0),
                           SubSeq(running[p].chunks, 1, running[p].i + 1),
                           running[p].i, running[p].existing_ids,
                           [filename |-> running[p].name, repo_url |-> running[p].url,
                            more |-> <<>>]))

\* a PDF is put in the working directory while no process is ingesting
PutFile == (\A p \in Procs : running[p].kind = "idle") /\ WriteFile

\* ingestions of both modules running side by side on the one collection
NextConcurrent ==
    \/ PutFile
    \/ AFBegin
    \/ AFAddNext
    \/ P4Begin
    \/ P4AddNext

SpecConcurrent == Init /\ [][NextConcurrent]_vars

----------------------------------------------------------------------------
(* test_ollama_CoT.py: generate_response, lines 14-21 *)

\* iterating a str gives its characters, iterating a list its elements
Chars(str) == [i \in 1..Len(str) |-> PyStr(SubSeq(str, i, i))]
Iterate(value) == IF value.tag = "list" THEN value.val ELSE Chars(value.val)

\* [item for sublist in relevant_docs for item in sublist]
RECURSIVE Flatten(_)
Flatten(relevant_docs) ==
    IF relevant_docs = <<>> THEN <<>>
    ELSE Iterate(Head(relevant_docs)) \o Flatten(Tail(relevant_docs))

\* repr of a list of strings without quotes or backslashes in them
RECURSIVE ReprItems(_)
ReprItems(items) ==
    IF items = <<>> THEN ""
    ELSE "'" \o Head(items).val \o "'"
         \o (IF Tail(items) = <<>> THEN "" ELSE ", " \o ReprItems(Tail(items)))

\* str(value)
Str(value) ==
    IF value.tag = "str" THEN value ELSE PyStr("[" \o ReprItems(value.val) \o "]")

\* any(isinstance(doc, list) for doc in relevant_docs)
AnyList(relevant_docs) == \E i \in DOMAIN relevant_docs : relevant_docs[i].tag = "list"

MapStr(relevant_docs) == [i \in DOMAIN relevant_docs |-> Str(relevant_docs[i])]

\* relevant_docs after lines 17-21, from what retrieve_documents returned
Normalize(relevant_docs) ==
    PyList(MapStr(IF AnyList(relevant_docs.val) THEN Flatten(relevant_docs.val)
                  ELSE relevant_docs.val))

SeqsUpTo(S, n) == UNION {[1..k -> S] : k \in 0..n}

DocTexts == {"ab", "cd", "e"}

\* flat lists of texts, lists of lists of texts, and mixes of both
ResultShapes ==
    {PyList(docs) :
        docs \in SeqsUpTo({PyStr(t) : t \in DocTexts}
                          \cup {StrList(ts) : ts \in SeqsUpTo(DocTexts, MaxDocs)},
                          MaxResults)}

\* the outcome of a call of a function that changes nothing
Called(op, args, r) ==
    [op |-> op, args |-> args,
     status |-> IF r.error = "" THEN "returned" ELSE "raised",
     error |-> r.error, ret |-> r.ret]

NormalizeDocs ==
    \E relevant_docs \in ResultShapes :
        /\ last' = Called("generate_response", [relevant_docs |-> relevant_docs],
                       [error |-> "", ret |-> Normalize(relevant_docs)])
        /\ UNCHANGED <<store, fs, ingested, running>>

NextNormalize == NormalizeDocs

\* the normalization of generate_response on its own
SpecNormalize == Init /\ [][NextNormalize]_vars

\* texts chunk_text is tried on: empty, blank, one word, words and blanks
ChunkTexts ==
    {<<>>, <<"  ">>, <<"abcdefg">>, <<"ab", " ", "cde">>,
     <<" ", "ab", "  ", "cdefgh", " ">>, <<"a", " ", "b", " ", "c">>,
     <<"abc", "   ", "de", " ", "f">>}
ChunkSizes == (0 - 1)..MaxChunkSize
MinChunkSizes == (0 - 1)..MaxMinChunkSize

ChunkText ==
    \E text \in ChunkTexts, chunk_size \in ChunkSizes, min_chunk_size \in MinChunkSizes :
        /\ last' = Called("chunk_text",
                       [text |-> text, chunk_size |-> chunk_size,
                        min_chunk_size |-> min_chunk_size],
                       ChunkTextCall(text, chunk_size, min_chunk_size))
        /\ UNCHANGED <<store, fs, ingested, running>>

NextChunking == ChunkText

\* chunk_text on its own
SpecChunking == Init /\ [][NextChunking]_vars
----------------------------------------------------------------------------
(* Properties *)

AddPdfOps == {"af_add_pdf", "p4_add_pdf"}
BuildOps == {"af_build_database", "p4_build_database"}

\* the ids add_pdf_to_database derives from the file as it is
CandidateIds(files, name) ==
    {ChunkId(name, i - 1) :
        i \in 1..Len(chunk_text(files[name].text, default_chunk_size, default_min_chunk_size))}

\* C1: add_pdf_to_database run again on a document that a completed run has
\* read with the text it has now inserts no record: the call returns and the
\* collection's count() is what it was.
C1_IdempotentIngestion ==
    (last.op \in AddPdfOps /\ last.rerun)
        => last.status = "returned" /\ last.added = 0 /\ last.stored = 0

\* a second run of add_pdf_to_database on a stored two-chunk document
C1_Witness ==
    /\ last.op \in AddPdfOps /\ last.rerun /\ last.args.path = CheatSheet
    /\ CandidateIds(fs, CheatSheet) \subseteq Ids(store)
    /\ Cardinality(CandidateIds(fs, CheatSheet)) = 2

\* C2: whatever ingestion operations have run one after another, no id is
\* held by two records of the collection, and no operation has called
\* collection.add with an id the collection already held.
C2_AtMostOnceStorage ==
    /\ \A r1, r2 \in store : r1.id = r2.id => r1 = r2
    /\ ~last.dup

\* an ingestion that found one chunk of its document stored and added the other
C2_Witness ==
    /\ last.op \in AddPdfOps \cup BuildOps
    /\ last.added = 1
    /\ CandidateIds(fs, CheatSheet) \subseteq Ids(store)
    /\ Cardinality(store) >= 3

C4_BatchSkipsUnreadable ==
    (last.op \in BuildOps /\ last.error # "StoreWriteError")
        => /\ last.status = "returned"
           /\ last.op = "af_build_database" =>
                 \A f \in PdfNames : (fs[f].kind = "pdf" /\ f \notin last.skipped)
                                        => CandidateIds(fs, f) \subseteq Ids(store)

\* C5: when an insertion of add_pdf_to_database fails, the records the
\* insertions before it stored are in the collection afterwards, and every
\* record the collection held before is still there, unchanged.
C5_PartialSuccess ==
    (last.op \in AddPdfOps /\ last.error = "StoreWriteError")
        => last.added = last.stored /\ last.kept

\* the insertion of a document's second new chunk failed
C5_Witness ==
    /\ last.op \in AddPdfOps /\ last.error = "StoreWriteError"
    /\ last.stored = 1 /\ last.added = 1
    /\ ChunkId(CheatSheet, 0) \in Ids(store) /\ ChunkId(CheatSheet, 1) \notin Ids(store)

\* C6: build_database skips a document only when all its chunks are stored.
C6_SkipsOnlyFullyStored ==
    last.op = "af_build_database"
        => \A f \in last.skipped : fs[f].kind = "pdf" => CandidateIds(fs, f) \subseteq Ids(store)

\* the texts of the records among the top_k nearest whose file_type is the
\* filter's, nearest first
TextsOf(records) == PyList([i \in DOMAIN records |-> PyStr(records[i].document)])

MatchingTexts(st, query, top_k, file_type) ==
    TextsOf(SelectSeq(Nearest(st, get_embedding(query), top_k),
                      LAMBDA r : DictGet(r.metadata, "file_type") = file_type))

Retrieved == last.op = "retrieve_documents" /\ ~last.args.query_fails

\* C7: with a file_type filter, retrieve_documents returns the texts of those
\* of the top_k nearest records whose metadata file_type equals the filter,
\* in their order, and nothing else.
C7_FilterShrinkage ==
    (Retrieved /\ Truthy(last.args.file_type))
        => /\ last.status = "returned"
           /\ last.ret = MatchingTexts(store, last.args.query, last.args.top_k,
                                       last.args.file_type)

\* C8: on a collection that holds no record, retrieve_documents returns an
\* empty sequence and raises no error, whatever the query, top_k and file_type.
C8_RetrievalEmptiness ==
    (Retrieved /\ store = {}) => last.status = "returned" /\ last.ret = PyList(<<>>)

Smaller(a, b) == IF a <= b THEN a ELSE b

\* C9: retrieve_documents returns a flat sequence of at most
\* min(top_k, count()) entries, each the text of a record of the collection.
C9_FlatStoredTexts ==
    (Retrieved /\ last.status = "returned")
        => /\ last.ret.tag = "list"
           /\ Len(last.ret.val) <= Smaller(last.args.top_k, Cardinality(store))
           /\ \A i \in DOMAIN last.ret.val :
                 /\ last.ret.val[i].tag = "str"
                 /\ \E r \in store : r.document = last.ret.val[i].val

\* a returned value that holds no text: [] or lists of nothing
NoTexts(ret) ==
    /\ ret.tag = "list"
    /\ \A i \in DOMAIN ret.val : ret.val[i].tag = "list" /\ ret.val[i].val = <<>>

\* C10: when the store's query fails, retrieve_documents raises and returns
\* nothing; it returns a result without texts only after a query that
\* succeeded and had no record to match.
C10_QueryFailurePropagates ==
    last.op = "retrieve_documents"
        => /\ last.args.query_fails => last.status = "raised" /\ last.error = "StoreQueryError"
           /\ (last.status = "returned" /\ NoTexts(last.ret))
                 => ~last.args.query_fails /\ store = {}

\* the query of a retrieval on a collection with records failed
C10_Witness ==
    /\ last.op = "retrieve_documents" /\ last.args.query_fails
    /\ last.status = "raised"
    /\ Cardinality(store) >= 2

----------------------------------------------------------------------------
(* chunk_text *)

ChunkTextDone == last.op = "chunk_text"

\* the index of the first occurrence of frag in s at or after index from,
\* 0 if there is none
FirstAt(frag, s, from) ==
    IF \E i \in from..(Len(s) - Len(frag) + 1) : SubSeq(s, i, i + Len(frag) - 1) = frag
    THEN CHOOSE i \in from..(Len(s) - Len(frag) + 1) :
             /\ SubSeq(s, i, i + Len(frag) - 1) = frag
             /\ \A j \in from..(i - 1) : SubSeq(s, j, j + Len(frag) - 1) # frag
    ELSE 0

\* the fragments are pieces of s that follow each other in s
RECURSIVE InOrderFrom(_, _, _)
InOrderFrom(frags, s, from) ==
    \/ frags = <<>>
    \/ /\ FirstAt(Head(frags).val, s, from) > 0
       /\ InOrderFrom(Tail(frags), s, FirstAt(Head(frags).val, s, from) + Len(Head(frags).val))

AllBlank(text) == \A i \in DOMAIN text : IsBlank(text[i])

\* every fragment within the bounds, the fragments in the order of the text,
\* nothing from a text without a word
WithinBounds(args, frags) ==
    /\ \A i \in DOMAIN frags :
          Len(frags[i].val) <= args.chunk_size /\ Len(frags[i].val) > args.min_chunk_size
    /\ InOrderFrom(frags, Join(args.text), 1)
    /\ AllBlank(args.text) => frags = <<>>

\* C11 as stated: for every text and every (chunk_size, min_chunk_size),
\* chunk_text returns fragments of length at most chunk_size and more than
\* min_chunk_size, in the order of the text, and an empty sequence for an
\* empty or whitespace-only text.
C11_ChunkingBoundsAnySize ==
    ChunkTextDone => last.status = "returned" /\ WithinBounds(last.args, last.ret.val)

\* C11 amended: for chunk_size >= 1 chunk_text returns fragments of length at
\* most chunk_size and more than min_chunk_size, in the order of the text,
\* and an empty sequence for an empty or whitespace-only text; for
\* chunk_size <= 0 it raises ValueError whatever the text.
C11_ChunkingBounds ==
    ChunkTextDone =>
        IF last.args.chunk_size >= 1
        THEN last.status = "returned" /\ WithinBounds(last.args, last.ret.val)
        ELSE last.status = "raised" /\ last.error = "ValueError"

\* a text with a word longer than chunk_size gave several fragments
C11_Witness ==
    /\ ChunkTextDone /\ last.status = "returned"
    /\ last.args.text = <<" ", "ab", "  ", "cdefgh", " ">>
    /\ last.args.chunk_size = 4 /\ last.args.min_chunk_size = 1
    /\ Len(last.ret.val) = 3

----------------------------------------------------------------------------
(* Re-ingestion of a changed document *)

\* every chunk of the text is stored, and the record of each chunk id holds
\* the chunk's text
StoredAsChunked(st, name, chunks) ==
    \A i \in DOMAIN chunks :
        /\ \E r \in st : r.document = chunks[i]
        /\ \A r \in st : r.id = ChunkId(name, i - 1) => r.document = chunks[i]

\* C12: once an ingestion of a document has completed on its current text,
\* every chunk of that text is stored and no record keeps, under the id of a
\* chunk, a text other than the chunk's: a chunk whose text changed was
\* stored as a new chunk under a new id.
C12_IdDeterminesText ==
    \A name \in PdfNames :
        (name \in ingested /\ fs[name].kind = "pdf")
            => StoredAsChunked(store, name, CurrentChunks(fs, name))

----------------------------------------------------------------------------
(* Ingestions side by side *)

AddOps == {"af_add", "p4_add"}

\* C13: whatever the interleaving of two ingestions that each took
\* existing_ids once before its first insertion, no id is held by two
\* records and no collection.add is made with an id that is already stored.
C13_NoDoubleInsert ==
    /\ \A r1, r2 \in store : r1.id = r2.id => r1 = r2
    /\ last.op \in AddOps => ~last.dup

----------------------------------------------------------------------------
(* Normalization of the retrieved documents *)

\* the texts a result holds, each once and whole, in the order of the result
RECURSIVE TextsIn(_)
TextsIn(docs) ==
    IF docs = <<>> THEN <<>>
    ELSE (IF Head(docs).tag = "list" THEN Head(docs).val ELSE <<Head(docs)>>)
         \o TextsIn(Tail(docs))

====
